---- MODULE Spec2Model ----
(***************************************************************************)
(* Model of the gameplay simulation of MYOB Dash (src/src/game.js, class   *)
(* GameScene): the per-frame update, the collision callbacks, the timer    *)
(* callbacks and the run lifecycle.                                        *)
(*                                                                         *)
(* One frame of the engine is four phases, in the engine's order:          *)
(*   "input"   pointer / restart-key events are delivered between frames;  *)
(*   "clock"   the scene clock has advanced by the frame delta and the     *)
(*             timer events that became due are dispatched;                *)
(*   "physics" the arcade world has stepped (unless paused) and reports    *)
(*             overlaps to collectCoin / hitEnemy / playerFellInPit;       *)
(*   then update(time, delta) runs and the next frame begins.              *)
(*                                                                         *)
(* Fixed-point units (all arithmetic of the source is exact in them for    *)
(* frame deltas that are multiples of 5 ms):                               *)
(*   time, counters          ms                                            *)
(*   scrollSpeed             1/1000 px/s                                   *)
(*   spawnDelay, timer delay 1/1000 ms                                     *)
(*   x positions, widths     1/200000 px                                   *)
(***************************************************************************)
EXTENDS Integers, Sequences, FiniteSets

\* ------------------------------------------------------------- constants
\* constructor(), src/src/game.js:76-107
coyoteTimeDuration == 100
jumpBufferDuration == 100
baseScrollSpeed == 250
maxScrollSpeed == 750
speedIncreaseFactor == 6
baseSpawnDelay == 1700
minSpawnDelay == 400
spawnDecreaseFactor == 18
powerUpDuration == 10000
\* powerUpSpeedBoost = 1.6, held as the fraction 16/10
powerUpSpeedBoostNum == 16
powerUpSpeedBoostDen == 10
\* collectCoin: comboTimeWindow, baseScore, the hit-stop delay
comboTimeWindow == 1500
baseScore == 10
hitStopDelay == 30
\* collectCoin: coins needed for a power-up
powerUpThreshold == 20
\* triggerPowerUp: freeze frames, flash period
freezeDelay == 150
\* endGame: camera fade
fadeDuration == 400
\* update / handleJumpInput: jump velocities
groundJumpVelocity == -575
doubleJumpVelocity == -500
fastFallVelocity == 500
\* config.scale.width, spawn offsets and target sizes (px)
worldWidth == 800
coinSpawnOffset == 50
enemySpawnOffset == 100
pitSpawnBuffer == 20
coinWidth == 24
enemyWidth == 30
flyingEnemyWidth == 35
basePitWidth == 120

\* ---------------------------------------------------------------- bounds
\* slots per entity group (the source's groups grow on demand)
PoolSize == 4
\* frames explored by each specification
MaxFrames == 6
MoveFrames == 5
RampFrames == 215
ComboFrames == 660
PowerFrames == 231
\* frames with a free choice of delta at the start of the ramp specification
RampFreeFrames == 4
\* frames of the lead-in of the combo and power-up specifications, in which
\* the player touches nothing (spawnDelay is at its floor after 72.3 s)
ComboLeadIn == 600
PowerLeadIn == 181
\* frames of the game-over specification and of its lead-in (the first pit
\* is spawned in frame 9, the second coin in frame 10)
OverFrames == 15
OverLeadIn == 9

NoType == "none"
PowerUpPool == {"speed", "shield"}
Slots == 1..PoolSize

NoTimer == [on |-> FALSE, elapsed |-> 0, delay |-> 0]
NoCall == [on |-> FALSE, left |-> 0]
NoEntity == [active |-> FALSE, x |-> 0, w |-> 0, body |-> FALSE]
EmptyPool == [i \in Slots |-> NoEntity]
NoFade == [phase |-> "none", left |-> 0]

Min(a, b) == IF a < b THEN a ELSE b
Max(a, b) == IF a > b THEN a ELSE b
\* px to position units
Px(p) == p * 200000

VARIABLES
    \* --- GameScene fields
    score, gameOver, scrollSpeed, spawnDelay,
    powerUpActive, activePowerUpType, coinsCollectedForPowerUp,
    comboCount, scoreMultiplier, lastCoinCollectTime,
    hasDoubleJumped, jumpDownActive, coyoteTimeCounter, jumpBufferCounter,
    \* --- timer handles held in fields
    coinSpawnTimer, enemySpawnTimer, gapSpawnTimer,
    powerUpTimer, powerUpFlashEvent, comboTimer,
    \* --- entity groups
    coins, enemies, flyingEnemies, gapGroup,
    \* --- engine: clock, physics world, camera, input
    now, delta, phase, due, delayed, physicsPaused, fade, restartKey,
    \* --- player body
    touching, velY, yZone,
    \* --- what a restart keeps: the high score, the player's scale record
    \* and its copy in the scene's data manager
    highScore, playerScale, playerScaleData,
    \* --- observers (history of the run, not program state)
    contact, jumps, sinceGround, jumpedInAir, bufferAge,
    comboAtLastPick, lastPickAt, lastGap, scenStage, scenT0, frames,
    endings, airJumps, powerUpAt, creditAtTrigger

fieldVars == <<score, gameOver, scrollSpeed, spawnDelay, powerUpActive,
               activePowerUpType, coinsCollectedForPowerUp, comboCount,
               scoreMultiplier, lastCoinCollectTime>>
moveVars == <<hasDoubleJumped, jumpDownActive, coyoteTimeCounter,
              jumpBufferCounter>>
timerVars == <<coinSpawnTimer, enemySpawnTimer, gapSpawnTimer, powerUpTimer,
               powerUpFlashEvent, comboTimer>>
groupVars == <<coins, enemies, flyingEnemies, gapGroup>>
engineVars == <<now, delta, phase, due, delayed, physicsPaused, fade,
                restartKey>>
bodyVars == <<touching, velY, yZone>>
pickObs == <<comboAtLastPick, lastPickAt, lastGap, scenStage, scenT0,
             powerUpAt, creditAtTrigger>>
obsVars == <<contact, jumps, sinceGround, jumpedInAir, airJumps, bufferAge,
             pickObs, frames, endings>>
keptVars == <<highScore, playerScale, playerScaleData>>
vars == <<fieldVars, moveVars, timerVars, groupVars, engineVars, bodyVars,
          keptVars, obsVars>>

\* --------------------------------------------------------------- helpers
\* currentScrollSpeed of update(): boosted while any power-up is active
currentScrollSpeed ==
    IF powerUpActive
    THEN (scrollSpeed * powerUpSpeedBoostNum) \div powerUpSpeedBoostDen
    ELSE scrollSpeed

\* -currentScrollSpeed * deltaSeconds, in position units (1/200000 px)
Displacement(cur, d) == cur * (d \div 5)

\* getBounds().right of an entity whose origin x is 0.5
RightEdge(e) == e.x + e.w \div 2

\* moveGroupChildren followed by despawnOffscreenObjects for one group
moveGroupChildren(group, disp) ==
    [i \in Slots |->
        IF group[i].active THEN [group[i] EXCEPT !.x = @ - disp]
        ELSE group[i]]

\* a faulty variant of DespawnTest: the leading edge is tested
DespawnTestLeftEdge(e) == e.active /\ e.x - e.w \div 2 < 0
DespawnTest(e) == e.active /\ RightEdge(e) < 0

despawnOffscreenObjects(group) ==
    [i \in Slots |-> IF DespawnTest(group[i]) THEN NoEntity ELSE group[i]]

HasFree(group) == \E i \in Slots : ~group[i].active
\* group.get(): the first inactive member is reused
FirstFree(group) ==
    CHOOSE i \in Slots :
        ~group[i].active /\ \A j \in Slots : j < i => group[j].active
Activate(group, x, w) ==
    [group EXCEPT ![FirstFree(group)] =
               [active |-> TRUE, x |-> x, w |-> w, body |-> TRUE]]
AnyActive(group) == \E i \in Slots : group[i].active

\* a faulty variant of RampSpeed: the cap is forgotten
RampSpeedUncapped(s, d) == s + speedIncreaseFactor * d
\* increaseDifficulty: the two ramps
RampSpeed(s, d) ==
    Min(s + speedIncreaseFactor * d, maxScrollSpeed * 1000)
\* a faulty variant of RampDelay: the floor is forgotten
RampDelayUnfloored(s, d) == s - spawnDecreaseFactor * d
RampDelay(s, d) ==
    Max(s - spawnDecreaseFactor * d, minSpawnDelay * 1000)
\* increaseDifficulty: the periods of the three spawn timers
CoinPeriod(sd) == (sd * 11) \div 10
EnemyPeriod(sd) == sd
GapPeriod(sd) == Max((sd * 18) \div 10, (minSpawnDelay * 1000 * 25) \div 10)
\* startSpawning: the periods at the start of a run
StartGapPeriod(sd) == sd * 2
Retime(t, period) == IF t.on THEN [t EXCEPT !.delay = period] ELSE t

\* a faulty variant of Tier: the second tier starts one pickup late
TierLate(c) ==
    IF c >= 8 THEN 4
    ELSE IF c >= 5 THEN 3
    ELSE IF c >= 4 THEN 2
    ELSE 1
\* collectCoin: multiplier tier of a combo count
Tier(c) ==
    IF c >= 8 THEN 4
    ELSE IF c >= 5 THEN 3
    ELSE IF c >= 3 THEN 2
    ELSE 1

\* a faulty variant of ContinuesCombo: the comparison is reversed
ContinuesComboReversed(t, last) == t - last > comboTimeWindow
\* collectCoin: does this pickup continue the combo?
ContinuesCombo(t, last) == t - last < comboTimeWindow

\* a faulty variant of Award: the multiplier is forgotten
AwardBase(mult) == baseScore
\* collectCoin: the points of one pickup
Award(mult) == baseScore * mult

\* faulty variants of TriggersPowerUp: the active power-up is not looked
\* at; the threshold is exceeded instead of reached
TriggersWhileActive(active, n) == n >= powerUpThreshold
TriggersLate(active, n) == ~active /\ n > powerUpThreshold
\* a faulty variant of CountPickup: no count while a power-up is active
CountPickupIdle(c, active) == IF active THEN c ELSE c + 1
\* collectCoin: the pickup counter after this pickup
CountPickup(c, active) == c + 1
\* collectCoin: is a power-up triggered by this pickup?
TriggersPowerUp(active, n) == ~active /\ n >= powerUpThreshold

\* the process callback of the two hazard colliders (create)
HazardProcess == ~powerUpActive /\ ~gameOver

\* ------------------------------------------------------ movement (update)
\* m = [vel, hdj, jda, coy, buf, jumps]: vertical velocity, hasDoubleJumped,
\* jumpDownActive, coyoteTimeCounter, jumpBufferCounter and the jump
\* velocities set so far in this handler
Jump(m, v) == [m EXCEPT !.vel = v, !.coy = 0, !.buf = 0,
                        !.jumps = Append(@, v)]

\* a faulty variant of BufferPending: a pending request is never seen
BufferPendingNever(b) == FALSE
BufferPending(b) == b > 0
\* a faulty variant of CoyoteOpen: the window is compared with its duration
CoyoteOpenAtFull(c) == c >= coyoteTimeDuration
CoyoteOpen(c) == c > 0

\* update: landing logic
Landing(m, tg, d) ==
    IF tg
    THEN LET g == [m EXCEPT !.hdj = FALSE, !.jda = FALSE,
                            !.coy = coyoteTimeDuration]
         IN  IF BufferPending(m.buf) THEN Jump(g, groundJumpVelocity) ELSE g
    ELSE [m EXCEPT !.coy = @ - d]

\* update: player jump logic
JumpLogic(m, tg, jumpKey) ==
    IF ~jumpKey THEN m
    ELSE IF tg \/ CoyoteOpen(m.coy) THEN Jump(m, groundJumpVelocity)
    ELSE IF ~tg /\ ~m.hdj
         THEN [Jump(m, doubleJumpVelocity) EXCEPT !.hdj = TRUE]
    ELSE IF ~tg THEN [m EXCEPT !.buf = jumpBufferDuration]
    ELSE m

\* update: jump buffer decrement, else the fast fall
BufferTick(m, tg, downKey, d) ==
    IF BufferPending(m.buf) THEN [m EXCEPT !.buf = @ - d]
    ELSE IF downKey /\ ~tg
         THEN [m EXCEPT !.vel = fastFallVelocity, !.jda = TRUE]
    ELSE m

\* update: the vertical bounds check; the player is below the world
\* a faulty variant first: the fall is never noticed
BelowWorldNever(zone) == FALSE
BelowWorld(zone) == zone = "below"

\* update: soft ceiling
CeilingClamp(m, zone) == IF zone = "above" THEN [m EXCEPT !.vel = 0] ELSE m

Movement(tg, jumpKey, downKey, d, zone) ==
    LET m0 == [vel |-> velY, hdj |-> hasDoubleJumped, jda |-> jumpDownActive,
               coy |-> coyoteTimeCounter, buf |-> jumpBufferCounter,
               jumps |-> <<>>]
    IN  CeilingClamp(
            BufferTick(JumpLogic(Landing(m0, tg, d), tg, jumpKey),
                       tg, downKey, d),
            zone)

\* handleJumpInput (pointer), after its game-over guard
\* a faulty variant first: the pointer's double jump is not marked as used
PointerJumpUnmarked(m, tg) ==
    IF tg /\ BufferPending(m.buf)
    THEN [Jump(m, groundJumpVelocity) EXCEPT !.hdj = FALSE]
    ELSE IF tg \/ CoyoteOpen(m.coy) THEN Jump(m, groundJumpVelocity)
    ELSE IF ~tg /\ ~m.hdj THEN Jump(m, doubleJumpVelocity)
    ELSE IF ~tg /\ ~gameOver THEN [m EXCEPT !.buf = jumpBufferDuration]
    ELSE m
PointerJump(m, tg) ==
    IF tg /\ BufferPending(m.buf)
    THEN [Jump(m, groundJumpVelocity) EXCEPT !.hdj = FALSE]
    ELSE IF tg \/ CoyoteOpen(m.coy) THEN Jump(m, groundJumpVelocity)
    ELSE IF ~tg /\ ~m.hdj
         THEN [Jump(m, doubleJumpVelocity) EXCEPT !.hdj = TRUE]
    ELSE IF ~tg /\ ~gameOver THEN [m EXCEPT !.buf = jumpBufferDuration]
    ELSE m

\* --------------------------------------------------------- initial state
\* The scenario of the scoring section: pickup times relative to the first
Scenario == <<0, 200, 400, 2500>>

\* create: the scale record of the player computed from the sprite sheet
\* (frames of 102 x 408 scaled to the target size of 24 x 48; a scale is
\* held as the pair <<numerator, denominator>>), and the empty entry of the
\* scene's data manager
SheetScale ==
    [originalWidth |-> 102, originalHeight |-> 408,
     scaleX |-> <<24, 102>>, scaleY |-> <<48, 408>>]
NoScaleData == [originalWidth |-> 0, originalHeight |-> 0,
                scaleX |-> <<0, 1>>, scaleY |-> <<0, 1>>]

\* startSpawning: the three looping spawn timers of a fresh run
StartTimer(period) == [on |-> TRUE, elapsed |-> 0, delay |-> period]

\* constructor() followed by the first create()
Init ==
    /\ score = 0 /\ gameOver = FALSE
    /\ scrollSpeed = baseScrollSpeed * 1000
    /\ spawnDelay = baseSpawnDelay * 1000
    /\ powerUpActive = FALSE /\ activePowerUpType = NoType
    /\ coinsCollectedForPowerUp = 0
    /\ comboCount = 0 /\ scoreMultiplier = 1 /\ lastCoinCollectTime = 0
    /\ hasDoubleJumped = FALSE /\ jumpDownActive = FALSE
    /\ coyoteTimeCounter = 0 /\ jumpBufferCounter = 0
    /\ coinSpawnTimer = StartTimer(CoinPeriod(baseSpawnDelay * 1000))
    /\ enemySpawnTimer = StartTimer(EnemyPeriod(baseSpawnDelay * 1000))
    /\ gapSpawnTimer = StartTimer(StartGapPeriod(baseSpawnDelay * 1000))
    /\ powerUpTimer = NoCall /\ powerUpFlashEvent = FALSE
    /\ comboTimer = NoCall
    /\ coins = EmptyPool /\ enemies = EmptyPool
    /\ flyingEnemies = EmptyPool /\ gapGroup = EmptyPool
    /\ now = 0 /\ delta = 0 /\ phase = "input" /\ due = {}
    /\ delayed = {} /\ physicsPaused = FALSE /\ fade = NoFade
    /\ restartKey = FALSE
    /\ touching = FALSE /\ velY = 0 /\ yZone = "in"
    /\ contact = "none" /\ jumps = <<>>
    /\ sinceGround = coyoteTimeDuration
    /\ jumpedInAir = FALSE /\ airJumps = 0 /\ bufferAge = -1
    /\ powerUpAt = 0 /\ creditAtTrigger = 0
    /\ comboAtLastPick = 0 /\ lastPickAt = 0 /\ lastGap = -1
    /\ scenStage = 0 /\ scenT0 = 0 /\ frames = 0
    /\ highScore = 0 /\ playerScale = SheetScale
    /\ playerScaleData = NoScaleData /\ endings = 0

\* ------------------------------------------------------- the scene clock
Advance(t, d) == IF t.on THEN [t EXCEPT !.elapsed = @ + d * 1000] ELSE t
Tick(c, d) == IF c.on THEN [c EXCEPT !.left = @ - d] ELSE c
IsDue(t) == t.on /\ t.elapsed >= t.delay
CallDue(c) == c.on /\ c.left <= 0
\* a looping timer keeps the remainder of its period after it fired
Rearm(t) == [t EXCEPT !.elapsed = @ - t.delay]

\* The clock's update: every pending event advances by the frame delta;
\* the looping timers that reached their period are dispatched once, in
\* the order of their creation (coin, hazard, pit).
BeginFrame(d) ==
    /\ phase = "input"
    /\ now' = now + d /\ delta' = d /\ phase' = "clock"
    /\ coinSpawnTimer' = Advance(coinSpawnTimer, d)
    /\ enemySpawnTimer' = Advance(enemySpawnTimer, d)
    /\ gapSpawnTimer' = Advance(gapSpawnTimer, d)
    /\ due' = {k \in {"coin", "enemy", "gap"} :
                 IsDue(CASE k = "coin" -> coinSpawnTimer'
                         [] k = "enemy" -> enemySpawnTimer'
                         [] OTHER -> gapSpawnTimer')}
    /\ powerUpTimer' = Tick(powerUpTimer, d)
    /\ comboTimer' = Tick(comboTimer, d)
    /\ delayed' = {[c EXCEPT !.left = @ - d] : c \in delayed}
    /\ fade' = IF fade.phase = "none" THEN fade
               ELSE [fade EXCEPT !.left = @ - d]
    /\ frames' = frames + 1 /\ contact' = "none" /\ jumps' = <<>>
    /\ lastGap' = -1
    /\ UNCHANGED <<fieldVars, moveVars, powerUpFlashEvent, groupVars,
                   physicsPaused, restartKey, bodyVars, sinceGround,
                   jumpedInAir, airJumps, bufferAge, comboAtLastPick,
                   lastPickAt, scenStage, scenT0, powerUpAt, endings,
                   creditAtTrigger,
                   keptVars>>

NothingDue ==
    /\ due = {}
    /\ ~CallDue(powerUpTimer) /\ ~CallDue(comboTimer)
    /\ \A c \in delayed : c.left > 0
    /\ ~(fade.phase # "none" /\ fade.left <= 0)

\* ------------------------------------------------------- spawn callbacks
spawnCoin ==
    /\ phase = "clock" /\ "coin" \in due /\ HasFree(coins)
    /\ due' = due \ {"coin"}
    /\ coinSpawnTimer' = Rearm(coinSpawnTimer)
    /\ coins' = IF gameOver THEN coins
                ELSE Activate(coins, Px(worldWidth + coinSpawnOffset),
                              Px(coinWidth))
    /\ UNCHANGED <<fieldVars, moveVars, enemySpawnTimer, gapSpawnTimer,
                   powerUpTimer, powerUpFlashEvent, comboTimer, enemies,
                   flyingEnemies, gapGroup, now, delta, phase, delayed,
                   physicsPaused, fade, restartKey, bodyVars, obsVars,
                   keptVars>>

\* spawnEnemyType: ground stands for Math.random() < 0.7
spawnEnemyType(ground) ==
    /\ phase = "clock" /\ "enemy" \in due /\ "coin" \notin due
    /\ HasFree(IF ground THEN enemies ELSE flyingEnemies)
    /\ due' = due \ {"enemy"}
    /\ enemySpawnTimer' = Rearm(enemySpawnTimer)
    /\ enemies' = IF ~gameOver /\ ground
                  THEN Activate(enemies, Px(worldWidth + enemySpawnOffset),
                                Px(enemyWidth))
                  ELSE enemies
    /\ flyingEnemies' = IF ~gameOver /\ ~ground
                        THEN Activate(flyingEnemies,
                                      Px(worldWidth + enemySpawnOffset),
                                      Px(flyingEnemyWidth))
                        ELSE flyingEnemies
    /\ UNCHANGED <<fieldVars, moveVars, coinSpawnTimer, gapSpawnTimer,
                   powerUpTimer, powerUpFlashEvent, comboTimer, coins,
                   gapGroup, now, delta, phase, delayed, physicsPaused, fade,
                   restartKey, bodyVars, obsVars,
                   keptVars>>

\* spawnPit: pitWidth is the random width in px
spawnPit(pitWidth) ==
    /\ phase = "clock" /\ due = {"gap"} /\ HasFree(gapGroup)
    /\ due' = due \ {"gap"}
    /\ gapSpawnTimer' = Rearm(gapSpawnTimer)
    /\ gapGroup' = IF gameOver THEN gapGroup
                   ELSE Activate(gapGroup,
                                 Px(worldWidth + pitSpawnBuffer)
                                     + Px(pitWidth) \div 2,
                                 Px(pitWidth))
    /\ UNCHANGED <<fieldVars, moveVars, coinSpawnTimer, enemySpawnTimer,
                   powerUpTimer, powerUpFlashEvent, comboTimer, coins,
                   enemies, flyingEnemies, now, delta, phase, delayed,
                   physicsPaused, fade, restartKey, bodyVars, obsVars,
                   keptVars>>

\* ------------------------------------------------ one-shot timer callbacks
\* collectCoin: the combo-expiry callback held in this.comboTimer
comboExpire ==
    /\ phase = "clock" /\ CallDue(comboTimer)
    /\ comboTimer' = NoCall
    /\ comboCount' = 0 /\ scoreMultiplier' = 1
    /\ UNCHANGED <<score, gameOver, scrollSpeed, spawnDelay, powerUpActive,
                   activePowerUpType, coinsCollectedForPowerUp,
                   lastCoinCollectTime, moveVars, coinSpawnTimer,
                   enemySpawnTimer, gapSpawnTimer, powerUpTimer,
                   powerUpFlashEvent, groupVars, engineVars, bodyVars,
                   obsVars,
                   keptVars>>

\* a faulty variant of endPowerUp: the flash timer is left running
endPowerUpLeavesFlash ==
    /\ phase = "clock" /\ CallDue(powerUpTimer)
    /\ powerUpActive' = FALSE /\ activePowerUpType' = NoType
    /\ powerUpTimer' = NoCall
    /\ UNCHANGED <<score, gameOver, scrollSpeed, spawnDelay,
                   coinsCollectedForPowerUp, comboCount, scoreMultiplier,
                   lastCoinCollectTime, moveVars, coinSpawnTimer,
                   enemySpawnTimer, gapSpawnTimer, comboTimer, groupVars,
                   powerUpFlashEvent, engineVars, bodyVars, obsVars,
                   keptVars>>

\* endPowerUp, called by the duration timer
endPowerUp ==
    /\ phase = "clock" /\ CallDue(powerUpTimer)
    /\ powerUpActive' = FALSE /\ activePowerUpType' = NoType
    /\ powerUpFlashEvent' = FALSE /\ powerUpTimer' = NoCall
    /\ UNCHANGED <<score, gameOver, scrollSpeed, spawnDelay,
                   coinsCollectedForPowerUp, comboCount, scoreMultiplier,
                   lastCoinCollectTime, moveVars, coinSpawnTimer,
                   enemySpawnTimer, gapSpawnTimer, comboTimer, groupVars,
                   engineVars, bodyVars, obsVars,
                   keptVars>>

\* the callbacks scheduled with time.delayedCall and held in no field:
\* "hitstop" and "freeze" resume physics, "combo" is a combo-expiry timer
\* that a later pickup replaced without removing, "cosmetic" is cosmetic
\* a faulty variant first: the callback does not resume physics
delayedCallNoResume(c) ==
    /\ phase = "clock" /\ c \in delayed /\ c.left <= 0
    /\ delayed' = delayed \ {c}
    /\ comboCount' = IF c.kind = "combo" THEN 0 ELSE comboCount
    /\ scoreMultiplier' = IF c.kind = "combo" THEN 1 ELSE scoreMultiplier
    /\ UNCHANGED <<score, gameOver, scrollSpeed, spawnDelay, powerUpActive,
                   activePowerUpType, coinsCollectedForPowerUp,
                   lastCoinCollectTime, moveVars, timerVars, groupVars, now,
                   delta, phase, due, fade, restartKey, bodyVars, obsVars,
                   physicsPaused, keptVars>>
delayedCall(c) ==
    /\ phase = "clock" /\ c \in delayed /\ c.left <= 0
    /\ delayed' = delayed \ {c}
    /\ physicsPaused' = IF c.kind \in {"hitstop", "freeze"} THEN FALSE
                        ELSE physicsPaused
    /\ comboCount' = IF c.kind = "combo" THEN 0 ELSE comboCount
    /\ scoreMultiplier' = IF c.kind = "combo" THEN 1 ELSE scoreMultiplier
    /\ UNCHANGED <<score, gameOver, scrollSpeed, spawnDelay, powerUpActive,
                   activePowerUpType, coinsCollectedForPowerUp,
                   lastCoinCollectTime, moveVars, timerVars, groupVars, now,
                   delta, phase, due, fade, restartKey, bodyVars, obsVars,
                   keptVars>>

\* endGame: the fade-out completes, the restart key is armed and the
\* fade-in starts; then the fade-in completes
fadeComplete ==
    /\ phase = "clock" /\ fade.phase # "none" /\ fade.left <= 0
    /\ fade' = IF fade.phase = "out"
               THEN [phase |-> "in", left |-> fadeDuration]
               ELSE NoFade
    /\ restartKey' = IF fade.phase = "out" THEN TRUE ELSE restartKey
    /\ UNCHANGED <<fieldVars, moveVars, timerVars, groupVars, now, delta,
                   phase, due, delayed, physicsPaused, bodyVars, obsVars,
                   keptVars>>

\* ------------------------------------------------------ the physics world
\* One step of the arcade world, an external capability: it decides the
\* ground contact and the vertical zone of the player.  A body moving up
\* is not ground-contacted; ground contact stops the fall.  A paused
\* world does not step and reports nothing.
worldStep(tg, zone, apex) ==
    /\ phase = "clock" /\ NothingDue
    /\ IF physicsPaused
       THEN /\ phase' = "update"
            /\ UNCHANGED bodyVars
       ELSE /\ phase' = "physics"
            /\ velY < 0 => ~tg
            /\ tg => zone = "in"
            /\ touching' = tg /\ yZone' = zone
            /\ velY' = IF tg \/ apex THEN 0 ELSE velY
    /\ UNCHANGED <<fieldVars, moveVars, timerVars, groupVars, now, delta,
                   due, delayed, physicsPaused, fade, restartKey, obsVars,
                   keptVars>>

\* ----------------------------------------------------------- game over
\* faulty variants of cleanupTimers: the combo timer is forgotten; the
\* power-up duration timer is forgotten
cleanupTimersLeavesCombo ==
    /\ coinSpawnTimer' = NoTimer /\ enemySpawnTimer' = NoTimer
    /\ gapSpawnTimer' = NoTimer /\ powerUpTimer' = NoCall
    /\ powerUpFlashEvent' = FALSE /\ comboTimer' = comboTimer
cleanupTimersLeavesPowerUp ==
    /\ coinSpawnTimer' = NoTimer /\ enemySpawnTimer' = NoTimer
    /\ gapSpawnTimer' = NoTimer /\ powerUpTimer' = powerUpTimer
    /\ powerUpFlashEvent' = FALSE /\ comboTimer' = NoCall
\* cleanupTimers: the six timers held in fields are removed and nulled
cleanupTimers ==
    /\ coinSpawnTimer' = NoTimer /\ enemySpawnTimer' = NoTimer
    /\ gapSpawnTimer' = NoTimer /\ powerUpTimer' = NoCall
    /\ powerUpFlashEvent' = FALSE /\ comboTimer' = NoCall

\* endGame after its guard, as the values the fields take
EndGameStep ==
    /\ gameOver' = TRUE /\ physicsPaused' = TRUE
    /\ cleanupTimers
    /\ powerUpActive' = FALSE
    /\ activePowerUpType' = IF powerUpActive THEN NoType
                            ELSE activePowerUpType
    /\ fade' = [phase |-> "out", left |-> fadeDuration]
    /\ endings' = endings + 1

\* endGame, called from a collision callback
endGame ==
    IF gameOver
    THEN UNCHANGED <<gameOver, physicsPaused, timerVars, powerUpActive,
                     activePowerUpType, fade, endings>>
    ELSE EndGameStep

\* -------------------------------------------------------------- pickups
\* the observer of the scoring scenario: stage k while the pickups of the
\* run so far are exactly the first k of Scenario, -1 once they are not
ScenNext(stage, t0, t) ==
    IF stage = 0 THEN 1
    ELSE IF stage > 0 /\ stage < Len(Scenario)
            /\ t - t0 = Scenario[stage + 1]
         THEN stage + 1
    ELSE -1

\* a faulty variant of DurationTimer: half the duration
DurationTimerHalf == [on |-> TRUE, left |-> powerUpDuration \div 2]
\* triggerPowerUp: the common duration timer of the power-ups
DurationTimer == [on |-> TRUE, left |-> powerUpDuration]

\* faulty variants of ComboExpiryTimer: half the window, twice the window
ComboExpiryTimerHalf == [on |-> TRUE, left |-> comboTimeWindow \div 2]
ComboExpiryTimerLong == [on |-> TRUE, left |-> comboTimeWindow * 2]
\* collectCoin: the combo-expiry timer set by every pickup
ComboExpiryTimer == [on |-> TRUE, left |-> comboTimeWindow]

\* triggerPowerUp, entered from collectCoin; type is the random pick
PowerUpCalls(type) ==
    {[kind |-> "freeze", left |-> freezeDelay]}
        \cup (IF type = "shield"
              THEN {[kind |-> "cosmetic", left |-> powerUpDuration]}
              ELSE {})

\* The world runs its colliders in the order of their registration in
\* create: the coin overlap, the two hazard colliders, the pit overlap.
\* contact names the collider that reported last in this step.
CoinsTurn ==
    contact \notin {"hazard", "pit", "stale hazard", "stale pit"}
HazardsTurn == contact \notin {"pit", "stale pit"}

\* collectCoin for the coin in slot i; type is the power-up picked at
\* random should this pickup trigger one
collectCoin(i, type) ==
    /\ phase = "physics" /\ CoinsTurn /\ coins[i].active
    /\ LET cont == ContinuesCombo(now, lastCoinCollectTime)
           cc == IF cont THEN comboCount + 1 ELSE 1
           mult == IF cont THEN Tier(cc) ELSE 1
           n == CountPickup(coinsCollectedForPowerUp, powerUpActive)
           trig == TriggersPowerUp(powerUpActive, n)
           \* the replaced combo timer is removed only on the combo branch
           orphan == IF ~cont /\ comboTimer.on
                     THEN {[kind |-> "combo", left |-> comboTimer.left]}
                     ELSE {}
           stop == IF cc > 1
                   THEN {[kind |-> "hitstop", left |-> hitStopDelay]}
                   ELSE {}
       IN  /\ coins' = [coins EXCEPT ![i] = NoEntity]
           /\ comboCount' = cc /\ scoreMultiplier' = mult
           /\ comboTimer' = ComboExpiryTimer
           /\ lastCoinCollectTime' = now
           /\ score' = score + Award(mult)
           /\ coinsCollectedForPowerUp' = IF trig THEN 0 ELSE n
           /\ powerUpActive' = (powerUpActive \/ trig)
           /\ activePowerUpType' = IF trig THEN type ELSE activePowerUpType
           /\ powerUpTimer' = IF trig THEN DurationTimer ELSE powerUpTimer
           /\ powerUpFlashEvent' = IF trig /\ type = "speed" THEN TRUE
                                   ELSE powerUpFlashEvent
           /\ physicsPaused' = (physicsPaused \/ cc > 1 \/ trig)
           /\ delayed' = delayed \cup orphan \cup stop
                            \cup (IF trig THEN PowerUpCalls(type) ELSE {})
           /\ comboAtLastPick' = cc /\ lastPickAt' = now
           /\ lastGap' = IF comboAtLastPick > 0 THEN now - lastPickAt ELSE -1
           /\ scenStage' = ScenNext(scenStage, scenT0, now)
           /\ scenT0' = IF scenStage = 0 THEN now
                        ELSE IF scenStage' = -1 THEN 0 ELSE scenT0
           /\ powerUpAt' = IF trig THEN now ELSE powerUpAt
           /\ creditAtTrigger' = IF trig THEN n ELSE creditAtTrigger
    /\ contact' = "coin"
    /\ UNCHANGED <<gameOver, scrollSpeed, spawnDelay, moveVars,
                   coinSpawnTimer, enemySpawnTimer, gapSpawnTimer, enemies,
                   flyingEnemies, gapGroup, now, delta, phase, due, fade,
                   restartKey, bodyVars, jumps, sinceGround, jumpedInAir,
                   airJumps, bufferAge, frames, endings, keptVars>>

\* ------------------------------------------------------------- hazards
\* hitEnemy
hitEnemy ==
    IF gameOver
    THEN UNCHANGED <<gameOver, physicsPaused, timerVars, powerUpActive,
                     activePowerUpType, fade, delayed, endings>>
    ELSE IF activePowerUpType = "shield" /\ powerUpActive
    THEN /\ powerUpActive' = FALSE /\ activePowerUpType' = NoType
         /\ powerUpTimer' = NoCall
         /\ delayed' = delayed \cup {[kind |-> "cosmetic", left |-> 1200],
                                     [kind |-> "cosmetic", left |-> 200]}
         /\ UNCHANGED <<gameOver, physicsPaused, coinSpawnTimer,
                        enemySpawnTimer, gapSpawnTimer, powerUpFlashEvent,
                        comboTimer, fade, endings>>
    ELSE EndGameStep /\ UNCHANGED delayed

\* The collider of the player with the ground hazards (ground) or the
\* flying hazards reports a contact with the hazard in slot i; hitEnemy
\* runs when the collider's process callback allows it.
hazardCollide(tag) ==
    /\ phase = "physics" /\ HazardsTurn
    /\ contact' = tag
    /\ IF HazardProcess THEN hitEnemy
       ELSE UNCHANGED <<gameOver, physicsPaused, timerVars, powerUpActive,
                        activePowerUpType, fade, delayed, endings>>
    /\ UNCHANGED <<score, scrollSpeed, spawnDelay, coinsCollectedForPowerUp,
                   comboCount, scoreMultiplier, lastCoinCollectTime,
                   moveVars, groupVars, now, delta, phase, due, restartKey,
                   bodyVars, jumps, sinceGround, jumpedInAir, airJumps,
                   bufferAge, pickObs, frames, keptVars>>

hazardContact(ground, i) ==
    /\ (IF ground THEN enemies ELSE flyingEnemies)[i].active
    /\ hazardCollide("hazard")

\* ---------------------------------------------------------------- pits
\* faulty variants of FeetInPit: the ground contact is not looked at; the
\* test is reversed
FeetInPitAlways == TRUE
FeetInPitAirborne == ~touching
\* a third faulty variant: a power-up carries the player over the pit
FeetInPitUnlessPowerUp == touching /\ ~powerUpActive
\* playerFellInPit: a ground-contacted player has its feet at the ground
\* top, which is below the pit's top + 5
FeetInPit == touching

\* playerFellInPit(player, pit): the pit itself is not looked at
pitOverlap(tag) ==
    /\ phase = "physics"
    /\ contact' = tag
    /\ IF ~gameOver /\ FeetInPit THEN endGame
       ELSE UNCHANGED <<gameOver, physicsPaused, timerVars, powerUpActive,
                        activePowerUpType, fade, endings>>
    /\ UNCHANGED <<score, scrollSpeed, spawnDelay, coinsCollectedForPowerUp,
                   comboCount, scoreMultiplier, lastCoinCollectTime,
                   moveVars, groupVars, now, delta, phase, due, delayed,
                   restartKey, bodyVars, jumps, sinceGround, jumpedInAir,
                   airJumps, bufferAge, pickObs, frames, keptVars>>

playerFellInPit(i) == gapGroup[i].active /\ pitOverlap("pit")

\* ------------------------------------------- callbacks for a dead entity
\* The callbacks as they run when they are handed a pooled entity that is
\* not active: collectCoin returns at its first line; hitEnemy and
\* playerFellInPit never look at the entity.
collectCoinInactive(i) ==
    /\ phase = "physics" /\ CoinsTurn /\ ~coins[i].active
    /\ contact' = "stale coin"
    /\ UNCHANGED <<fieldVars, moveVars, timerVars, groupVars, engineVars,
                   bodyVars, jumps, sinceGround, jumpedInAir, airJumps,
                   bufferAge, pickObs, frames, endings, keptVars>>

hazardContactInactive(ground, i) ==
    /\ ~(IF ground THEN enemies ELSE flyingEnemies)[i].active
    /\ hazardCollide("stale hazard")

playerFellInPitInactive(i) ==
    ~gapGroup[i].active /\ pitOverlap("stale pit")

\* -------------------------------------------------------------- update
\* does this jump press only register a buffered jump?
BuffersJump(m, tg, jumpKey) ==
    jumpKey /\ ~tg /\ ~CoyoteOpen(m.coy) /\ m.hdj

\* observers of the movement: time since the last ground-contacted tick
\* (held at the coyote duration once it is reached), whether a jump was
\* executed since then, and the age of the latest buffering press (held
\* just above the buffer duration once it is exceeded, -1 for none)
AgeCap == jumpBufferDuration + 5
\* the double jumps among the jumps of one handler, for the observer of
\* the double jumps executed since the last ground-contacted tick
DoubleJumps(js) ==
    Cardinality({k \in DOMAIN js : js[k] = doubleJumpVelocity})
SinceGroundNext(tg, d) ==
    IF tg THEN 0 ELSE Min(sinceGround + d, coyoteTimeDuration)
JumpedNext(tg, js) ==
    IF js # <<>> THEN TRUE ELSE IF tg THEN FALSE ELSE jumpedInAir
BufferAgeNext(tg, buffers, d) ==
    IF tg THEN -1
    ELSE IF buffers THEN 0
    ELSE IF bufferAge >= 0 THEN Min(bufferAge + d, AgeCap)
    ELSE -1

\* update(time, delta) with the keys that went down in this frame
update(jumpKey, downKey) ==
    /\ phase \in {"physics", "update"}
    /\ phase' = "input"
    /\ IF gameOver
       THEN UNCHANGED <<fieldVars, moveVars, timerVars, groupVars, now,
                        delta, due, delayed, physicsPaused, fade, restartKey,
                        bodyVars, obsVars,
                   keptVars>>
       ELSE LET m == Movement(touching, jumpKey, downKey, delta, yZone)
                landed == Landing([vel |-> velY, hdj |-> hasDoubleJumped,
                                   jda |-> jumpDownActive,
                                   coy |-> coyoteTimeCounter,
                                   buf |-> jumpBufferCounter,
                                   jumps |-> <<>>], touching, delta)
                disp == Displacement(currentScrollSpeed, delta)
                sd == RampDelay(spawnDelay, delta)
            IN  /\ velY' = m.vel
                /\ hasDoubleJumped' = m.hdj /\ jumpDownActive' = m.jda
                /\ coyoteTimeCounter' = m.coy /\ jumpBufferCounter' = m.buf
                /\ jumps' = m.jumps
                /\ yZone' = IF yZone = "above" THEN "in" ELSE yZone
                \* the player fell below the world: endGame()
                /\ IF BelowWorld(yZone)
                   THEN EndGameStep
                   ELSE /\ coinSpawnTimer' =
                               Retime(coinSpawnTimer, CoinPeriod(sd))
                        /\ enemySpawnTimer' =
                               Retime(enemySpawnTimer, EnemyPeriod(sd))
                        /\ gapSpawnTimer' =
                               Retime(gapSpawnTimer, GapPeriod(sd))
                        /\ UNCHANGED <<gameOver, physicsPaused, powerUpTimer,
                                       powerUpFlashEvent, comboTimer,
                                       powerUpActive, activePowerUpType,
                                       fade, endings>>
                \* move, despawn and ramp run in every tick that got here
                /\ coins' = despawnOffscreenObjects(
                                moveGroupChildren(coins, disp))
                /\ enemies' = despawnOffscreenObjects(
                                  moveGroupChildren(enemies, disp))
                /\ flyingEnemies' = despawnOffscreenObjects(
                                        moveGroupChildren(flyingEnemies, disp))
                /\ gapGroup' = despawnOffscreenObjects(
                                   moveGroupChildren(gapGroup, disp))
                /\ scrollSpeed' = RampSpeed(scrollSpeed, delta)
                /\ spawnDelay' = sd
                /\ sinceGround' = SinceGroundNext(touching, delta)
                /\ jumpedInAir' = JumpedNext(touching, m.jumps)
                /\ airJumps' = IF touching THEN 0
                               ELSE airJumps + DoubleJumps(m.jumps)
                /\ bufferAge' = BufferAgeNext(touching,
                                    BuffersJump(landed, touching, jumpKey),
                                    delta)
                /\ UNCHANGED <<score, coinsCollectedForPowerUp, comboCount,
                               scoreMultiplier, lastCoinCollectTime, now,
                               delta, due, delayed, restartKey, touching,
                               contact, pickObs, frames, keptVars>>

\* ------------------------------------------------------ input and restart
\* scene.restart(): the scene shuts down (its clock drops every pending
\* event, its groups and physics world are rebuilt) and create() runs.
\* create() does not reset comboCount, scoreMultiplier and
\* lastCoinCollectTime, which the constructor set once.
create ==
    /\ score' = 0 /\ gameOver' = FALSE
    /\ scrollSpeed' = baseScrollSpeed * 1000
    /\ spawnDelay' = baseSpawnDelay * 1000
    /\ powerUpActive' = FALSE /\ activePowerUpType' = NoType
    /\ coinsCollectedForPowerUp' = 0
    /\ hasDoubleJumped' = FALSE /\ jumpDownActive' = FALSE
    /\ coyoteTimeCounter' = 0 /\ jumpBufferCounter' = 0
    /\ coinSpawnTimer' = StartTimer(CoinPeriod(baseSpawnDelay * 1000))
    /\ enemySpawnTimer' = StartTimer(EnemyPeriod(baseSpawnDelay * 1000))
    /\ gapSpawnTimer' = StartTimer(StartGapPeriod(baseSpawnDelay * 1000))
    /\ powerUpTimer' = NoCall /\ powerUpFlashEvent' = FALSE
    /\ comboTimer' = NoCall
    /\ coins' = EmptyPool /\ enemies' = EmptyPool
    /\ flyingEnemies' = EmptyPool /\ gapGroup' = EmptyPool
    /\ due' = {} /\ delayed' = {} /\ physicsPaused' = FALSE
    /\ fade' = NoFade /\ restartKey' = FALSE
    /\ touching' = FALSE /\ velY' = 0 /\ yZone' = "in"
    /\ contact' = "none" /\ jumps' = <<>>
    /\ sinceGround' = coyoteTimeDuration
    /\ jumpedInAir' = FALSE /\ airJumps' = 0 /\ bufferAge' = -1
    /\ powerUpAt' = 0 /\ creditAtTrigger' = 0
    /\ comboAtLastPick' = 0 /\ lastPickAt' = 0 /\ lastGap' = -1
    /\ scenStage' = -1 /\ scenT0' = 0 /\ endings' = 0
    /\ playerScale' = IF playerScaleData' # NoScaleData THEN playerScaleData'
                      ELSE SheetScale
    /\ UNCHANGED <<comboCount, scoreMultiplier, lastCoinCollectTime, now,
                   delta, phase, frames, highScore>>

FadeRunning == fade.phase # "none"

\* restartGame: the scale record is put into the scene's data manager
SaveScale == playerScaleData' = playerScale

\* restartGame
restartGame ==
    IF ~gameOver \/ FadeRunning
    THEN UNCHANGED <<fieldVars, moveVars, timerVars, groupVars, now, delta,
                     phase, due, delayed, physicsPaused, fade, bodyVars,
                     obsVars, keptVars>>
    ELSE SaveScale /\ create

\* handleJumpInput: a pointer press, delivered between two frames
handleJumpInput ==
    /\ phase = "input"
    /\ IF gameOver
       THEN restartGame /\ (FadeRunning => UNCHANGED restartKey)
       ELSE LET m == PointerJump(
                         [vel |-> velY, hdj |-> hasDoubleJumped,
                          jda |-> jumpDownActive, coy |-> coyoteTimeCounter,
                          buf |-> jumpBufferCounter, jumps |-> <<>>],
                         touching)
            IN  /\ velY' = m.vel
                /\ hasDoubleJumped' = m.hdj /\ jumpDownActive' = m.jda
                /\ coyoteTimeCounter' = m.coy /\ jumpBufferCounter' = m.buf
                /\ jumps' = m.jumps
                /\ jumpedInAir' = (jumpedInAir \/ m.jumps # <<>>)
                /\ airJumps' = airJumps + DoubleJumps(m.jumps)
                /\ bufferAge' = IF m.buf = jumpBufferDuration
                                   /\ m.jumps = <<>> /\ ~touching
                                THEN 0 ELSE bufferAge
                /\ UNCHANGED <<fieldVars, timerVars, groupVars, engineVars,
                               touching, yZone, contact, sinceGround,
                               pickObs, frames, endings, keptVars>>

\* the keydown-SPACE listener that endGame registers once
restartKeyDown ==
    /\ phase = "input" /\ restartKey
    /\ IF ~gameOver \/ FadeRunning
       THEN /\ restartKey' = FALSE
            /\ UNCHANGED <<fieldVars, moveVars, timerVars, groupVars, now,
                           delta, phase, due, delayed, physicsPaused, fade,
                           bodyVars, obsVars, keptVars>>
       ELSE SaveScale /\ create

\* ------------------------------------------------------- specifications
\* Frame deltas (ms) offered by the environment.  No delta exceeds the
\* shortest timer period (400 ms), so a looping timer is due at most once
\* in a clock update.
Deltas == {100, 400}
MoveDeltas == {20, 50, 100}
RampDeltas == {0, 20, 400}
RampLateDeltas == {400}
ComboDeltas == {100}
PowerDeltas == {400}
OverDeltas == {400}
\* pit widths (px) and vertical zones offered by the environment
PitWidths == {90, 120, 150}
Zones == {"in", "above", "below"}

\* a frame begins: the clock advances by one of the deltas
Frame(D, bound) == frames < bound /\ \E d \in D : BeginFrame(d)

\* the whole program
Next ==
    \/ Frame(Deltas, MaxFrames)
    \/ spawnCoin
    \/ \E ground \in BOOLEAN : spawnEnemyType(ground)
    \/ \E w \in PitWidths : spawnPit(w)
    \/ comboExpire
    \/ endPowerUp
    \/ \E c \in delayed : delayedCall(c)
    \/ fadeComplete
    \/ \E tg \in BOOLEAN, zone \in Zones, apex \in BOOLEAN :
           worldStep(tg, zone, apex)
    \/ \E i \in Slots, type \in PowerUpPool : collectCoin(i, type)
    \/ \E ground \in BOOLEAN, i \in Slots : hazardContact(ground, i)
    \/ \E i \in Slots : playerFellInPit(i)
    \/ \E jumpKey \in BOOLEAN, downKey \in BOOLEAN : update(jumpKey, downKey)
    \/ handleJumpInput
    \/ restartKeyDown

Spec == Init /\ [][Next]_vars

\* movement only: short frames, every key and pointer input, no entity yet
NextMove ==
    \/ Frame(MoveDeltas, MoveFrames)
    \/ \E tg \in BOOLEAN, apex \in BOOLEAN : worldStep(tg, "in", apex)
    \/ \E jumpKey \in BOOLEAN, downKey \in BOOLEAN : update(jumpKey, downKey)
    \/ handleJumpInput

SpecMove == Init /\ [][NextMove]_vars

\* the difficulty ramp of one run, up to both caps: the first frames have
\* a free delta, the later ones a fixed one; the player stays in the air
\* and touches nothing
NextRamp ==
    \/ Frame(IF frames < RampFreeFrames THEN RampDeltas ELSE RampLateDeltas,
             RampFrames)
    \/ spawnCoin
    \/ spawnEnemyType(TRUE)
    \/ spawnPit(basePitWidth)
    \/ worldStep(FALSE, "in", FALSE)
    \/ update(FALSE, FALSE)

SpecRamp == Init /\ [][NextRamp]_vars

\* pickups late in a run: after a lead-in in which the player touches
\* nothing, the world may report any active coin as picked up; the player
\* stays in the air and clear of the hazards
NextCombo ==
    \/ Frame(ComboDeltas, ComboFrames)
    \/ spawnCoin
    \/ spawnEnemyType(TRUE)
    \/ spawnPit(basePitWidth)
    \/ comboExpire
    \/ \E c \in delayed : delayedCall(c)
    \/ worldStep(FALSE, "in", FALSE)
    \/ \E i \in Slots : frames > ComboLeadIn /\ collectCoin(i, "speed")
    \/ update(FALSE, FALSE)

SpecCombo == Init /\ [][NextCombo]_vars

\* power-ups late in a run: after a lead-in in which the player touches
\* nothing, the world reports every coin as picked up in the frame it is
\* spawned in (so no combo ever runs out) and may report any active hazard
\* as hit; the run is followed until it is over
NextPower ==
    \/ ~gameOver /\ Frame(PowerDeltas, PowerFrames)
    \/ spawnCoin
    \/ \E ground \in BOOLEAN :
           (frames <= PowerLeadIn => ground) /\ spawnEnemyType(ground)
    \/ spawnPit(basePitWidth)
    \/ endPowerUp
    \/ \E c \in delayed : delayedCall(c)
    \/ worldStep(FALSE, "in", FALSE)
    \/ \E i \in Slots, type \in PowerUpPool :
           frames > PowerLeadIn /\ collectCoin(i, type)
    \/ \E ground \in BOOLEAN, i \in Slots :
           frames > PowerLeadIn /\ hazardContact(ground, i)
    \/ (frames > PowerLeadIn /\ ~gameOver => ~AnyActive(coins))
           /\ update(FALSE, FALSE)

SpecPower == Init /\ [][NextPower]_vars

\* the end of a run late in it, with or without a power-up: as NextPower,
\* and after the lead-in the world may report that the player fell below
\* the world (where it overlaps nothing)
NextPowerOver ==
    \/ ~gameOver /\ Frame(PowerDeltas, PowerFrames)
    \/ spawnCoin
    \/ \E ground \in BOOLEAN :
           (frames <= PowerLeadIn => ground) /\ spawnEnemyType(ground)
    \/ spawnPit(basePitWidth)
    \/ endPowerUp
    \/ \E c \in delayed : delayedCall(c)
    \/ \E zone \in {"in", "below"} :
           (frames <= PowerLeadIn => zone = "in")
               /\ worldStep(FALSE, zone, FALSE)
    \/ \E i \in Slots, type \in PowerUpPool :
           frames > PowerLeadIn /\ yZone # "below" /\ collectCoin(i, type)
    \/ \E ground \in BOOLEAN, i \in Slots :
           frames > PowerLeadIn /\ yZone # "below" /\ hazardContact(ground, i)
    \/ \E i \in Slots :
           frames > PowerLeadIn /\ yZone # "below" /\ playerFellInPit(i)
    \/ (frames > PowerLeadIn /\ ~gameOver /\ yZone # "below"
            => ~AnyActive(coins))
           /\ update(FALSE, FALSE)

SpecPowerOver == Init /\ [][NextPowerOver]_vars

\* pits under a power-up: as NextPowerOver, and the player, in the air
\* otherwise, may come down to the ground while a power-up is active and
\* a pit is on the screen
NextPowerPit ==
    \/ ~gameOver /\ Frame(PowerDeltas, PowerFrames)
    \/ spawnCoin
    \/ \E ground \in BOOLEAN :
           (frames <= PowerLeadIn => ground) /\ spawnEnemyType(ground)
    \/ spawnPit(basePitWidth)
    \/ endPowerUp
    \/ \E c \in delayed : delayedCall(c)
    \/ \E tg \in BOOLEAN, zone \in {"in", "below"} :
           /\ frames <= PowerLeadIn => zone = "in"
           /\ tg => powerUpActive /\ AnyActive(gapGroup)
           /\ worldStep(tg, zone, FALSE)
    \/ \E i \in Slots, type \in PowerUpPool :
           frames > PowerLeadIn /\ yZone # "below" /\ collectCoin(i, type)
    \/ \E ground \in BOOLEAN, i \in Slots :
           frames > PowerLeadIn /\ yZone # "below" /\ hazardContact(ground, i)
    \/ \E i \in Slots :
           frames > PowerLeadIn /\ yZone # "below" /\ playerFellInPit(i)
    \/ (frames > PowerLeadIn /\ ~gameOver /\ yZone # "below"
            => ~AnyActive(coins))
           /\ update(FALSE, FALSE)

SpecPowerPit == Init /\ [][NextPowerPit]_vars

\* the end of a run and the restart: after a lead-in in which the player
\* is in the air and touches nothing, the world may report ground contact,
\* a fall below the world and a contact with any active coin, hazard or
\* pit; a player below the world (wholly under the screen) overlaps
\* nothing.  After the game is over the frames go on, the fades complete
\* and the restart key or a pointer press starts the next run.
NextOver ==
    \/ Frame(OverDeltas, OverFrames)
    \/ spawnCoin
    \/ \E ground \in BOOLEAN :
           (frames <= OverLeadIn => ground) /\ spawnEnemyType(ground)
    \/ spawnPit(basePitWidth)
    \/ comboExpire
    \/ \E c \in delayed : delayedCall(c)
    \/ fadeComplete
    \/ \E tg \in BOOLEAN, zone \in {"in", "below"} :
           /\ frames <= OverLeadIn => ~tg /\ zone = "in"
           /\ worldStep(tg, zone, FALSE)
    \/ \E i \in Slots :
           frames > OverLeadIn /\ yZone # "below" /\ collectCoin(i, "speed")
    \/ \E ground \in BOOLEAN, i \in Slots :
           frames > OverLeadIn /\ yZone # "below" /\ hazardContact(ground, i)
    \/ \E i \in Slots :
           frames > OverLeadIn /\ yZone # "below" /\ playerFellInPit(i)
    \/ update(FALSE, FALSE)
    \/ gameOver /\ handleJumpInput
    \/ restartKeyDown

SpecOver == Init /\ [][NextOver]_vars

\* as NextOver, and after the lead-in each collision callback may also be
\* handed a pooled entity that is not active
NextStale ==
    \/ NextOver
    \/ \E i \in Slots :
           frames > OverLeadIn /\ yZone # "below" /\ collectCoinInactive(i)
    \/ \E ground \in BOOLEAN, i \in Slots :
           /\ frames > OverLeadIn /\ yZone # "below"
           /\ hazardContactInactive(ground, i)
    \/ \E i \in Slots :
           /\ frames > OverLeadIn /\ yZone # "below"
           /\ playerFellInPitInactive(i)

SpecStale == Init /\ [][NextStale]_vars

\* ================================================================ claims
\* ---------------------------------------------------------------- C8
\* C8: a jump pressed while airborne with the double jump used, at most
\* 100 ms before the tick in which the player is ground-contacted again,
\* causes a ground jump (velocity -575) in that landing tick: the velocity
\* after the tick is -575, and exactly one jump is executed when no jump
\* key goes down in the landing tick itself.
BufferedWithin(d) ==
    ~gameOver /\ touching /\ bufferAge >= 0
        /\ bufferAge + d <= jumpBufferDuration
BufferedJumpOnLanding ==
    [][\A jumpKey \in BOOLEAN, downKey \in BOOLEAN :
          update(jumpKey, downKey) /\ BufferedWithin(delta)
              => /\ velY' = groundJumpVelocity
                 /\ jumps' # <<>>
                 /\ ~jumpKey => jumps' = <<groundJumpVelocity>>]_vars

\* ---------------------------------------------------------------- C9
\* C9: when the player left the ground without jumping, a jump pressed in a
\* tick less than 100 ms after the last ground-contacted tick (or by a
\* pointer press after such a tick) executes one ground jump of velocity
\* -575, not the double jump of -500, and the double jump stays unused;
\* unless the fast-fall key goes down in the same tick, -575 is the
\* velocity after the tick.
InCoyoteWindow(d) ==
    ~gameOver /\ ~touching /\ ~jumpedInAir
        /\ sinceGround + d < coyoteTimeDuration
CoyoteJumpIsGroundJump ==
    [][/\ \A downKey \in BOOLEAN :
              update(TRUE, downKey) /\ InCoyoteWindow(delta)
                  => /\ jumps' = <<groundJumpVelocity>>
                     /\ ~hasDoubleJumped'
                     /\ ~downKey => velY' = groundJumpVelocity
       /\ handleJumpInput /\ InCoyoteWindow(0)
              => /\ jumps' = <<groundJumpVelocity>>
                 /\ velY' = groundJumpVelocity
                 /\ ~hasDoubleJumped']_vars

\* a coyote jump was executed by update: a ground jump in an airborne tick
CoyoteJumpDone ==
    /\ phase = "input" /\ ~touching /\ jumps = <<groundJumpVelocity>>
    /\ velY = groundJumpVelocity /\ ~hasDoubleJumped
    /\ sinceGround > 0 /\ sinceGround < coyoteTimeDuration

\* ---------------------------------------------------------------- C10
\* C10: within one run, from one tick to the next, scrollSpeed never
\* decreases and never exceeds the maximum of 750, and spawnDelay never
\* increases and never drops below the floor of 400, whatever the
\* non-negative frame deltas are.
RampMonotoneAndCapped ==
    [][/\ scrollSpeed' >= scrollSpeed
       /\ scrollSpeed' <= maxScrollSpeed * 1000
       /\ spawnDelay' <= spawnDelay
       /\ spawnDelay' >= minSpawnDelay * 1000]_vars

\* both ramps have reached their caps in a run that is still running
RampAtCaps ==
    /\ ~gameOver /\ scrollSpeed = maxScrollSpeed * 1000
    /\ spawnDelay = minSpawnDelay * 1000

\* ------------------------------------------------------------ C5, C6, C7
\* a step that is a pickup
PickupStep == \E i \in Slots, type \in PowerUpPool : collectCoin(i, type)

\* C5: for two consecutive pickups of a run with gap dt, the combo count
\* after the second is 1 if dt >= 1500 ms, and the count after the first
\* plus 1 if dt < 1500 ms.
ComboResetIffGap ==
    [][PickupStep /\ comboAtLastPick > 0
          => IF now - lastPickAt >= 1500
             THEN comboCount' = 1
             ELSE comboCount' = comboAtLastPick + 1]_vars

\* a combo of three or more was ended by a pickup made exactly 1500 ms
\* after the one before
PickedAtWindowEnd ==
    contact = "coin" /\ lastGap = 1500 /\ comboCount = 1 /\ score >= 50

ScenarioCombo == <<1, 2, 3, 1>>
ScenarioMult == <<1, 1, 2, 1>>
ScenarioScore == <<10, 20, 40, 50>>
AwardIsTenTimesMultiplier ==
    [][PickupStep
          => /\ score' = score + 10 * scoreMultiplier'
             /\ scenStage' > 0
                    => /\ comboCount' = ScenarioCombo[scenStage']
                       /\ scoreMultiplier' = ScenarioMult[scenStage']
                       /\ score' = ScenarioScore[scenStage']]_vars

\* the four pickups of the scenario have been made
ScenarioDone == scenStage = Len(Scenario) /\ contact = "coin"

\* ------------------------------------------------------------ C1, C2
\* a step in which a hazard collider reports a contact
HazardStep == \E ground \in BOOLEAN, i \in Slots : hazardContact(ground, i)
ShieldUp == powerUpActive /\ activePowerUpType = "shield"

\* C1: a hazard contact while the shield is active consumes the shield:
\* the power-up becomes inactive, its duration timer is cancelled and the
\* run goes on.
ShieldAbsorbsHit ==
    [][HazardStep /\ ~gameOver /\ ShieldUp
          => ~powerUpActive' /\ powerUpTimer' = NoCall /\ ~gameOver']_vars

\* C2: a hazard contact in a running run without an active shield (no
\* power-up, or the speed power-up) ends the run.
UnshieldedHitEndsRun ==
    [][HazardStep /\ ~gameOver /\ ~ShieldUp => gameOver']_vars

\* ------------------------------------------------------------ C3, C4
\* C3: a power-up is entered only from the inactive state and one type is
\* active at a time; a pickup while a power-up is active changes neither
\* the active type nor the duration timer and leaves the pickup counter
\* counting; the counter goes back only on a successful trigger.
Entered == ~powerUpActive /\ powerUpActive'
TriggerWhileActiveIgnored ==
    [][/\ powerUpActive' => activePowerUpType' \in PowerUpPool
       /\ powerUpActive /\ powerUpActive'
              => /\ activePowerUpType' = activePowerUpType
                 /\ powerUpTimer'.left <= powerUpTimer.left
       /\ PickupStep /\ powerUpActive
              => /\ powerUpActive' /\ powerUpTimer' = powerUpTimer
                 /\ coinsCollectedForPowerUp' = coinsCollectedForPowerUp + 1
       /\ coinsCollectedForPowerUp' < coinsCollectedForPowerUp
              => Entered /\ coinsCollectedForPowerUp' = 0]_vars

\* the threshold was reached again by pickups made while a power-up is
\* active
ThresholdPassedWhileActive ==
    powerUpActive /\ coinsCollectedForPowerUp >= powerUpThreshold

\* C4: from a counter of 0 with no power-up active, each pickup counts one;
\* the 20th, and no earlier one, triggers the power-up and leaves the
\* counter at 0 and the duration timer at 10 s; no pickup made while that
\* power-up is active triggers again.
TriggeredByTwentieth ==
    [][PickupStep
          => /\ Entered <=> ~powerUpActive /\ coinsCollectedForPowerUp >= 19
             /\ Entered
                    => /\ coinsCollectedForPowerUp' = 0
                       /\ powerUpTimer' = [on |-> TRUE, left |-> 10000]
             /\ ~Entered
                    => /\ coinsCollectedForPowerUp'
                              = coinsCollectedForPowerUp + 1
                       /\ powerUpTimer' = powerUpTimer]_vars

\* the first pickup after the triggering one, the power-up still active
PickedAfterTrigger ==
    powerUpActive /\ coinsCollectedForPowerUp = 1 /\ contact = "coin"
        /\ powerUpTimer.left < powerUpDuration

\* ---------------------------------------------------------------- C11
\* a step in which the pit overlap reports a contact
PitStep == \E i \in Slots : playerFellInPit(i)

UpdateStep == \E jumpKey \in BOOLEAN, downKey \in BOOLEAN :
                  update(jumpKey, downKey)
\* the state of the simulation: every field, timer, group and body
simVars == <<fieldVars, moveVars, timerVars, groupVars, bodyVars, delayed,
             physicsPaused, fade>>

\* C12: an update that finds the player below the world in a running run
\* makes the run game-over in that tick; the effects of entering game-over
\* (flag, physics pause, timers removed, fade-out started) happen once per
\* run; and every later update until the restart changes nothing.
FallEndsRunOnce ==
    [][/\ UpdateStep /\ ~gameOver /\ yZone = "below"
              => /\ gameOver' /\ physicsPaused' /\ endings' = 1
                 /\ fade' = [phase |-> "out", left |-> fadeDuration]
       /\ endings' <= 1 /\ (gameOver' <=> endings' = 1)
       /\ UpdateStep /\ gameOver => UNCHANGED simVars]_vars

\* the player fell below the world, the game is over and a later update
\* has run
UpdatedAfterFall ==
    gameOver /\ yZone = "below" /\ phase = "input" /\ fade.phase = "in"

\* ---------------------------------------------------------------- C13
\* a step that restarts the scene
RestartStep ==
    (handleJumpInput \/ restartKeyDown) /\ gameOver /\ ~FadeRunning

\* C13: the game-over flag, once true, stays true until a restart, and it
\* becomes true only by an update that finds the player below the world,
\* by a hazard contact with no shield active, or by a pit overlap of a
\* ground-contacted player.
GameOverOneWay ==
    [][/\ gameOver /\ ~gameOver' => RestartStep
       /\ ~gameOver /\ gameOver'
              => \/ UpdateStep /\ yZone = "below"
                 \/ HazardStep /\ ~ShieldUp
                 \/ PitStep /\ touching]_vars

\* a run ended, stayed over while both fades ran, and was restarted
RestartedAfterGameOver ==
    ~gameOver /\ endings = 0 /\ playerScaleData # NoScaleData

\* ---------------------------------------------------------------- C14
\* a step that is a callback of the scene clock: a spawn timer, the combo
\* expiry, the power-up duration or a delayed call held in no field
TimerCallbackStep ==
    \/ spawnCoin
    \/ \E ground \in BOOLEAN : spawnEnemyType(ground)
    \/ \E w \in PitWidths : spawnPit(w)
    \/ comboExpire
    \/ endPowerUp
    \/ \E c \in delayed : delayedCall(c)

\* C14: while the game is over no timer callback scheduled during the run
\* fires.
NoCallbackWhileOver == [][gameOver => ~TimerCallbackStep]_vars

\* ---------------------------------------------------------------- C15
\* C15: while the game is over the physics world stays paused.
PausedWhileOver == gameOver => physicsPaused

\* ---------------------------------------------------------------- C16
\* a step in which the run enters game-over
GameOverEntered == ~gameOver /\ gameOver'

\* C16: immediately after the run enters game-over, from any running
\* state, the coin, hazard, pit, combo-expiry, power-up duration and
\* power-up flash timers are removed and cleared, and the power-up is
\* inactive with type none.
TimersClearedAtGameOver ==
    [][GameOverEntered
          => /\ coinSpawnTimer' = NoTimer /\ enemySpawnTimer' = NoTimer
             /\ gapSpawnTimer' = NoTimer /\ comboTimer' = NoCall
             /\ powerUpTimer' = NoCall /\ powerUpFlashEvent' = FALSE
             /\ ~powerUpActive' /\ activePowerUpType' = NoType]_vars

\* the run ended by a fall while a shield was up (its 10 s callback is
\* still pending) and the power-up was cleared
EndedUnderPowerUp ==
    /\ gameOver /\ yZone = "below" /\ ~powerUpActive
    /\ \E c \in delayed : c.kind = "cosmetic"

\* ---------------------------------------------------------------- C20
\* C20: a pending power-up duration timer implies an active power-up; and
\* the power-up becomes inactive only when the duration timer expires,
\* when the shield absorbs a hazard contact, when the run enters
\* game-over or when a run starts.
PendingTimerMeansActive ==
    [][/\ powerUpTimer'.on /\ powerUpTimer'.left > 0 => powerUpActive'
       /\ powerUpActive /\ ~powerUpActive'
              => \/ endPowerUp
                 \/ HazardStep /\ ShieldUp
                 \/ GameOverEntered
                 \/ RestartStep]_vars

\* a power-up ran for its whole duration and was ended by its timer (a
\* score above 800 takes 20 pickups or more)
PowerUpExpired ==
    /\ ~gameOver /\ ~powerUpActive /\ powerUpTimer = NoCall
    /\ phase = "clock" /\ score > 800

\* ---------------------------------------------------------------- C17
\* the create-time defaults of the run state and of the character
RunDefaults ==
    /\ score = 0 /\ comboCount = 0 /\ scoreMultiplier = 1
    /\ lastCoinCollectTime = 0 /\ coinsCollectedForPowerUp = 0
    /\ scrollSpeed = baseScrollSpeed * 1000
    /\ spawnDelay = baseSpawnDelay * 1000
    /\ ~powerUpActive /\ activePowerUpType = NoType
    /\ ~hasDoubleJumped /\ ~jumpDownActive
    /\ coyoteTimeCounter = 0 /\ jumpBufferCounter = 0 /\ ~gameOver

\* C17: after a restart every field of the run state and of the character
\* has its create-time default, whatever the state the run ended in.
RestartResetsRunState == [][RestartStep => RunDefaults']_vars

\* ---------------------------------------------------------------- C18
\* C18: a restart carries over the scale record of the player and the high
\* score, and nothing else of the run before it.
RestartKeepsOnlyScaleAndHighScore ==
    [][RestartStep
          => /\ playerScale' = playerScale /\ highScore' = highScore
             /\ comboCount' = 0 /\ scoreMultiplier' = 1
             /\ lastCoinCollectTime' = 0 /\ score' = 0
             /\ coinsCollectedForPowerUp' = 0]_vars

\* ---------------------------------------------------------------- C19
\* C19: in the tick in which the run becomes game-over, the update of that
\* tick changes the world no more: no ramp of scrollSpeed and spawnDelay,
\* no entity moved, despawned or spawned.
NoWorldChangeInTerminalTick ==
    [][UpdateStep /\ gameOver'
          => /\ scrollSpeed' = scrollSpeed /\ spawnDelay' = spawnDelay
             /\ UNCHANGED groupVars]_vars

\* ---------------------------------------------------------------- C21
SpeedUp == powerUpActive /\ activePowerUpType = "speed"

\* C21: a speed power-up of a run that goes on becomes inactive when its
\* 10 s duration timer fires and not before: it is ended by endPowerUp
\* with the whole duration elapsed, and no frame is simulated with the
\* timer run out and the power-up still active; while it is active the
\* effective scroll speed is 1.6 times scrollSpeed.
SpeedEndsWithTimer ==
    [][/\ SpeedUp /\ ~powerUpActive' /\ ~gameOver'
              => /\ endPowerUp
                 /\ now - powerUpAt >= powerUpDuration
                 /\ now - delta - powerUpAt < powerUpDuration
       /\ SpeedUp' /\ ~gameOver' /\ phase' # "clock"
              => now' - powerUpAt' < powerUpDuration
       /\ SpeedUp' /\ ~gameOver'
              => currentScrollSpeed' * 10 = scrollSpeed' * 16]_vars

\* the duration timer of a speed power-up has run out exactly 10 s after
\* the trigger and is about to end the power-up
SpeedTimerFires ==
    /\ phase = "clock" /\ SpeedUp /\ ~gameOver
    /\ now - powerUpAt = powerUpDuration /\ CallDue(powerUpTimer)

\* ---------------------------------------------------------------- C22
\* the displacement of the tick when only the speed power-up boosts it
SpeedOnlyDisplacement ==
    Displacement(IF SpeedUp
                 THEN (scrollSpeed * powerUpSpeedBoostNum)
                          \div powerUpSpeedBoostDen
                 ELSE scrollSpeed,
                 delta)
MovedBy(group, disp) ==
    \A i \in Slots :
        group[i].active /\ group'[i].active
            => group'[i].x = group[i].x - disp

\* C22: in every running tick each active coin, hazard and pit moves left
\* by scrollSpeed x deltaSeconds, and by 1.6 times that exactly when the
\* speed power-up is active (not while the shield is active).
BoostOnlyUnderSpeed ==
    [][UpdateStep /\ ~gameOver
          => /\ MovedBy(coins, SpeedOnlyDisplacement)
             /\ MovedBy(enemies, SpeedOnlyDisplacement)
             /\ MovedBy(flyingEnemies, SpeedOnlyDisplacement)
             /\ MovedBy(gapGroup, SpeedOnlyDisplacement)]_vars

\* ---------------------------------------------------------------- C26
\* C26: an active shield of a running run stays active until a hazard
\* contact: time alone does not deactivate it.
ShieldLastsUntilHit ==
    [][ShieldUp /\ ~gameOver /\ ~gameOver' /\ ~powerUpActive'
          => HazardStep]_vars

\* ----------------------------------------------------------- C23, C24
SpawnTimers == <<coinSpawnTimer, enemySpawnTimer, gapSpawnTimer>>
FloorPeriod == minSpawnDelay * 1000

\* C23: at every point of a run, at start and after every ramp step, the
\* coin timer period is 1.1 x spawnDelay, the hazard timer period is
\* spawnDelay and the pit timer period is max(2.0 x spawnDelay,
\* 2.5 x floor).
PeriodsFollowSpawnDelay ==
    ~gameOver =>
        /\ coinSpawnTimer.delay = (spawnDelay * 11) \div 10
        /\ enemySpawnTimer.delay = spawnDelay
        /\ gapSpawnTimer.delay
               = Max(spawnDelay * 2, (FloorPeriod * 25) \div 10)

\* C24: no spawn timer ever has a period below the floor (400 ms), and
\* the pit timer period is never below the hazard timer period nor below
\* the coin timer period.
PeriodsAboveFloorPitsRarest ==
    \A k \in 1..3 :
        SpawnTimers[k].on
            => /\ SpawnTimers[k].delay >= FloorPeriod
               /\ gapSpawnTimer.delay >= SpawnTimers[k].delay

\* the ramp has brought spawnDelay to the floor and the timers follow it
PeriodsAtFloor ==
    /\ ~gameOver /\ spawnDelay = FloorPeriod
    /\ enemySpawnTimer.on /\ enemySpawnTimer.delay = FloorPeriod
    /\ gapSpawnTimer.on /\ gapSpawnTimer.delay = (FloorPeriod * 25) \div 10
    /\ coinSpawnTimer.on /\ coinSpawnTimer.delay = (FloorPeriod * 11) \div 10

\* ---------------------------------------------------------------- C25
\* the sweep of one group, seen from outside: old and new are the group
\* before and after the update of the tick
SweptExactly(old, new) ==
    \A i \in Slots :
        /\ new[i].active => RightEdge(new[i]) >= 0
        /\ old[i].active /\ ~new[i].active
               => /\ RightEdge(old[i])
                        - Displacement(currentScrollSpeed, delta) < 0
                  /\ ~new[i].body

\* C25: after the despawn sweep of a running tick no entity whose right
\* edge is left of x = 0 is still active, no entity whose right edge is
\* at or right of x = 0 has been despawned by the sweep, and a despawned
\* entity has its collision body disabled.
DespawnExactlyOffscreen ==
    [][UpdateStep /\ ~gameOver
          => /\ SweptExactly(coins, coins')
             /\ SweptExactly(enemies, enemies')
             /\ SweptExactly(flyingEnemies, flyingEnemies')
             /\ SweptExactly(gapGroup, gapGroup')]_vars

\* the first coin of the run has been swept away while the second one is
\* still on its way
FirstCoinSwept ==
    /\ ~gameOver /\ phase = "input"
    /\ ~coins[1].active /\ coins[2].active /\ coins[2].body

\* ---------------------------------------------------------------- C27
\* C27: in every tick in which the character is ground-contacted, the
\* double-jump-used flag and the fast-falling flag are cleared, and a
\* pending buffered jump (buffer counter > 0) is executed as a ground jump
\* and the buffer is consumed (set to 0) in that same tick.
GroundedTickClearsAndJumps ==
    [][UpdateStep /\ ~gameOver /\ touching
          => /\ ~hasDoubleJumped' /\ ~jumpDownActive'
             /\ jumpBufferCounter > 0
                    => /\ jumps' # <<>>
                       /\ jumps'[1] = groundJumpVelocity
                       /\ velY' = groundJumpVelocity
                       /\ jumpBufferCounter' = 0]_vars

\* a grounded tick executed the buffered jump and then the jump of the key
\* that went down in it
BufferedThenKeyJump ==
    /\ phase = "input" /\ touching /\ ~gameOver
    /\ jumps = <<groundJumpVelocity, groundJumpVelocity>>
    /\ jumpBufferCounter = 0 /\ ~hasDoubleJumped /\ ~jumpDownActive

\* ---------------------------------------------------------------- C28
\* C28: between two consecutive ground contacts at most one double jump is
\* executed, whatever the interleaving of keyboard presses (in the tick)
\* and pointer presses (between ticks); a further airborne jump press only
\* registers a buffered jump.
OneDoubleJumpPerFlight ==
    [][/\ airJumps' <= 1
       /\ \A downKey \in BOOLEAN :
              update(TRUE, downKey) /\ ~gameOver /\ ~touching /\ airJumps = 1
                  => /\ jumps' = <<>>
                     /\ jumpBufferCounter' = jumpBufferDuration - delta
       /\ handleJumpInput /\ ~gameOver /\ ~touching /\ airJumps = 1
              => /\ jumps' = <<>>
                 /\ jumpBufferCounter' = jumpBufferDuration]_vars

\* after the double jump of the flight a pointer press has registered a
\* buffered jump
PressAfterDoubleJump ==
    /\ phase = "input" /\ ~touching /\ ~gameOver /\ airJumps = 1
    /\ jumps = <<>> /\ jumpBufferCounter = jumpBufferDuration
    /\ bufferAge = 0

\* ---------------------------------------------------------------- C29
\* C29: a buffered jump request expires: if more than 100 ms elapse
\* between the tick of the buffering press and the landing tick, no jump
\* is executed on landing; and a coyote window older than 100 ms never
\* permits a ground jump.
BufferAndCoyoteExpire ==
    [][/\ \A downKey \in BOOLEAN :
              /\ update(FALSE, downKey) /\ ~gameOver /\ touching
              /\ bufferAge >= 0 /\ bufferAge + delta > jumpBufferDuration
              => jumps' = <<>>
       /\ UpdateStep /\ ~gameOver /\ ~touching
              /\ sinceGround + delta > coyoteTimeDuration
              => \A k \in DOMAIN jumps' : jumps'[k] # groundJumpVelocity]_vars

\* ---------------------------------------------------------------- C30
\* C30: in every running tick in which the character is airborne and
\* fast-fall is pressed, the downward velocity +500 is applied and the
\* fast-falling flag is set; when the character is ground-contacted a
\* fast-fall press has no effect.
FastFallAlwaysApplies ==
    [][\A jumpKey \in BOOLEAN :
          update(jumpKey, TRUE) /\ ~gameOver
              => IF touching
                 THEN ~jumpDownActive' /\ velY' # fastFallVelocity
                 ELSE jumpDownActive' /\ velY' = fastFallVelocity]_vars

\* ---------------------------------------------------------------- C31
\* C31: when a jump press and a fast-fall press arrive in the same tick
\* the jump has priority: the vertical velocity at the end of the tick is
\* the one set by the jump and the fast-falling flag is not set.
JumpBeatsFastFall ==
    [][update(TRUE, TRUE) /\ ~gameOver
          => /\ ~jumpDownActive'
             /\ jumps' # <<>> => velY' = jumps'[Len(jumps')]]_vars

\* ---------------------------------------------------------------- C32
\* C32: every pickup re-arms the combo-expiry timer to 1500 ms; when the
\* run stays running and no further pickup happens within 1500 ms of a
\* pickup, the timer fires and resets the combo state (count 0,
\* multiplier 1); a pickup before it fires prevents that reset.
ComboExpiresAfterWindow ==
    [][/\ PickupStep
              => comboTimer' = [on |-> TRUE, left |-> comboTimeWindow]
       /\ comboExpire
              => /\ now - lastPickAt >= comboTimeWindow
                 /\ now - delta - lastPickAt < comboTimeWindow
                 /\ comboCount' = 0 /\ scoreMultiplier' = 1
       /\ (/\ comboAtLastPick' > 0 /\ ~gameOver' /\ phase' # "clock"
           /\ now' - lastPickAt' >= comboTimeWindow)
              => comboCount' = 0 /\ scoreMultiplier' = 1 /\ ~comboTimer'.on
       /\ comboCount # 0 /\ comboCount' = 0
              => now - lastPickAt >= comboTimeWindow]_vars

\* a combo of three or more has just run out, 1500 ms after its last pickup
ComboRanOut ==
    /\ ~gameOver /\ phase = "clock" /\ comboAtLastPick >= 3
    /\ now - lastPickAt = comboTimeWindow
    /\ comboCount = 0 /\ scoreMultiplier = 1 /\ ~comboTimer.on

\* ---------------------------------------------------------------- C33
\* C33: every pickup increments the power-up pickup counter by exactly
\* one, also while a power-up is active; the pickups made while a power-up
\* is active count toward the next trigger, so once the power-up has
\* ended the next trigger happens at the first pickup at which the
\* counter is at least 20 (and the trigger resets the counter).
PickupsAlwaysCounted ==
    [][PickupStep
          => IF ~powerUpActive
                /\ coinsCollectedForPowerUp + 1 >= powerUpThreshold
             THEN powerUpActive' /\ coinsCollectedForPowerUp' = 0
             ELSE /\ coinsCollectedForPowerUp'
                        = coinsCollectedForPowerUp + 1
                  /\ powerUpActive' = powerUpActive]_vars

\* a power-up was triggered by the first pickup after the one before had
\* ended, on the credit of the pickups made while that one was active
TriggeredOnCredit ==
    /\ contact = "coin" /\ powerUpActive /\ powerUpAt = now
    /\ coinsCollectedForPowerUp = 0 /\ creditAtTrigger > powerUpThreshold

\* ---------------------------------------------------------------- C34
\* a step in which a collision callback is handed an inactive entity
StaleStep ==
    \/ \E i \in Slots : collectCoinInactive(i)
    \/ \E ground \in BOOLEAN, i \in Slots : hazardContactInactive(ground, i)
    \/ \E i \in Slots : playerFellInPitInactive(i)

JumpInputStep == handleJumpInput \/ restartKeyDown

\* C35: a restart happens only from game-over: while the run is running no
\* jump input restarts it; while game-over a jump-equivalent input never
\* executes a jump or changes movement state but requests the restart,
\* which is refused while the game-over fade is running (so once the fade
\* has ended the space key is listened to, as the pointer is).
JumpInputRestartsOnlyWhenOver ==
    [][/\ gameOver /\ ~gameOver' => JumpInputStep /\ ~FadeRunning
       /\ JumpInputStep /\ ~gameOver
              => UNCHANGED <<score, scrollSpeed, spawnDelay, timerVars,
                             groupVars, now, playerScaleData>>
       /\ (JumpInputStep \/ UpdateStep) /\ gameOver /\ gameOver'
              => UNCHANGED <<moveVars, bodyVars, jumps>>
       /\ JumpInputStep /\ gameOver => (gameOver' <=> FadeRunning)
       /\ gameOver' /\ ~FadeRunning' => restartKey']_vars

\* ---------------------------------------------------------------- C36
\* C36: at most one combo-expiry timer is pending at any time: a pickup
\* never leaves an older combo-expiry timer pending, so the combo count
\* set by a pickup is reset only by the timer that this pickup set.
OneComboTimerPending ==
    [][/\ \A c \in delayed' : c.kind # "combo"
       /\ comboCount # 0 /\ comboCount' = 0
              => comboExpire /\ now - lastPickAt >= comboTimeWindow]_vars

\* a pickup took the reset branch, which removes no timer, at the very end
\* of the window of the pickup before: that timer had fired already
ResetBranchAfterExpiry ==
    /\ contact = "coin" /\ lastGap = comboTimeWindow
    /\ comboTimer = [on |-> TRUE, left |-> comboTimeWindow]
    /\ \A c \in delayed : c.kind # "combo"

RunStateFrozenWhileOver ==
    [][gameOver /\ gameOver'
          => UNCHANGED <<score, comboCount, coinsCollectedForPowerUp,
                         powerUpActive, activePowerUpType>>]_vars

\* ---------------------------------------------------------------- C39
\* the run has been ended in this step, the power-up state cleared by the
\* game-over entry and nothing consumed as a shield hit
EndedAndCleared ==
    /\ gameOver' /\ physicsPaused' /\ endings' = endings + 1
    /\ ~powerUpActive' /\ activePowerUpType' = NoType
    /\ powerUpTimer' = NoCall /\ ~powerUpFlashEvent'
    /\ delayed' = delayed

Resumes == {c \in delayed : c.kind \in {"hitstop", "freeze"}}

\* C40: while the run is running physics is never left paused for good:
\* whenever physics is paused (hit-stop of 30 ms, freeze-frame of 150 ms,
\* also when both overlap) a resume callback is pending with at most
\* 150 ms to run, the callback resumes physics when it fires, and the
\* world does not step again before a callback that is due has fired.
PausedPhysicsHasResume ==
    [][/\ ~gameOver' /\ physicsPaused'
              => \E c \in Resumes' : c.left <= freezeDelay
       /\ \A c \in Resumes : delayedCall(c) => ~physicsPaused'
       /\ ~gameOver /\ phase = "clock" /\ phase' # "clock"
              => \A c \in Resumes : c.left > 0]_vars

\* a pickup that continued a combo triggered a power-up: physics is paused
\* and the hit-stop and the freeze-frame resume are both pending
HitStopAndFreezePending ==
    /\ ~gameOver /\ physicsPaused /\ powerUpActive /\ powerUpAt = now
    /\ [kind |-> "hitstop", left |-> hitStopDelay] \in delayed
    /\ [kind |-> "freeze", left |-> freezeDelay] \in delayed

====
